---- MODULE Spec2Model ----
(***************************************************************************)
(* Model of src/agent_runtime.py: the Flask webhook relay.                 *)
(*                                                                         *)
(* Each request id r stands for one invocation of webhook(); its locals    *)
(* (payload, prompt, response, comment, the JWT payload, token) are        *)
(* functions of r.  The handler is cut at its blocking outbound HTTP calls *)
(* (Ollama generate, GitHub token exchange, GitHub comment post), so that  *)
(* invocations running in different server threads interleave there.      *)
(*                                                                         *)
(* Text is a sequence of tokens.  A token is either one character (" ",    *)
(* "x", "X") or one whole spelling of the trigger marker ("@agent" as the  *)
(* code writes it, "@Agent" for a spelling in another letter case).  The   *)
(* character "@" occurs in marker tokens only, so a substring test for the *)
(* marker is a membership test on tokens.                                  *)
(***************************************************************************)
EXTENDS Integers, Sequences, FiniteSets, TLC

VARIABLES
    workload,   \* "single": one request, all inputs; "concurrent": NumReqs requests
    pc,         \* pc[r]: position of invocation r in webhook()
    event,      \* event[r]: X-GitHub-Event header and request.json
    prompt,     \* prompt[r]: local `prompt` of webhook()
    response,   \* response[r]: local `response` of webhook()
    comment,    \* comment[r]: local `comment` of webhook()
    clk,        \* clk[r]: wall clock (ticks) at the first time.time() read
    jwt,        \* jwt[r]: local `payload` of generate_jwt()
    token,      \* token[r]: local `token` of post_github_comment()
    published,  \* published[r]: value returned by post_github_comment()
    http,       \* http[r]: what the webhook caller receives
    wire,       \* wire[r]: what the external services answered to r
    trace,      \* trace[r]: outbound calls of r, in order of start and end
    issued,     \* GitHub side: installation tokens issued, and to whom
    posts       \* GitHub side: comment posts received

vars == <<workload, pc, event, prompt, response, comment, clk, jwt, token,
          published, http, wire, trace, issued, posts>>

----------------------------------------------------------------------------
(* Bounds *)

NumReqs == 2
MaxLen == 3
TicksPerSec == 2
MaxTick == 2
MaxDrift == 1

Reqs == 1..NumReqs

----------------------------------------------------------------------------
(* Program constants.  The emoji that open the two comment templates are
   written [robot] and [wave]; line breaks inside the fixed texts are left
   out. *)

Validity == 600
Created == 201
Marker == "@agent"
CommentTemplate == "[robot] **Agent Response:**"
IssueTemplate == "[wave] **Automated Analysis:**"
AnalysisHead == "Analyze this GitHub issue and provide helpful suggestions: Title: "
AnalysisBody == " Body: "
OllamaError == "Error calling Ollama: "

----------------------------------------------------------------------------
(* Text *)

MarkerOtherCase == "@Agent"
Alphabet == {Marker, MarkerOtherCase, " ", "x", "X"}
Bodies == UNION {[1..n -> Alphabet] : n \in 0..MaxLen}

LowerTok(c) ==
    CASE c = MarkerOtherCase -> Marker
      [] c = "X" -> "x"
      [] OTHER -> c

Lower(s) == [i \in 1..Len(s) |-> LowerTok(s[i])]

Contains(s, tok) == \E i \in 1..Len(s) : s[i] = tok

\* str.split(sep, 1): a list of one or two parts
Split1(s, sep) ==
    IF ~Contains(s, sep) THEN <<s>>
    ELSE LET i == CHOOSE k \in 1..Len(s) :
                      s[k] = sep /\ \A j \in 1..(k-1) : s[j] # sep
         IN <<SubSeq(s, 1, i-1), SubSeq(s, i+1, Len(s))>>

\* str.strip()
Strip(s) ==
    LET keep == {i \in 1..Len(s) : s[i] # " "}
    IN IF keep = {} THEN <<>>
       ELSE LET lo == CHOOSE i \in keep : \A j \in keep : i <= j
                hi == CHOOSE i \in keep : \A j \in keep : j <= i
            IN SubSeq(s, lo, hi)

----------------------------------------------------------------------------
(* Inputs and the answers of the external services *)

Actions == {"created", "opened", "closed"}
Texts == {<<"x">>, <<"X", " ">>}
Title == <<"X", "x">>

Payload(t, a, hc, b, hi, bn, ib) ==
    [type |-> t, action |-> a, hasComment |-> hc, body |-> b,
     hasIssue |-> hi, title |-> Title, bodyNull |-> bn, issueBody |-> ib]

NoEvent == Payload("none", "none", FALSE, <<>>, FALSE, FALSE, <<>>)

CommentEvents ==
    {Payload("issue_comment", a, TRUE, b, hi, FALSE, <<>>) :
        a \in Actions, b \in Bodies, hi \in BOOLEAN}
    \cup {Payload("issue_comment", a, FALSE, <<>>, TRUE, FALSE, <<>>) : a \in Actions}

IssueEvents ==
    {Payload("issues", a, FALSE, <<>>, hi, FALSE, ib) :
        a \in Actions, hi \in BOOLEAN, ib \in {<<>>, <<"x">>}}
    \cup {Payload("issues", a, FALSE, <<>>, TRUE, TRUE, <<>>) : a \in Actions}

OtherEvents == {Payload("push", a, FALSE, <<>>, FALSE, FALSE, <<>>) : a \in Actions}

\* the concurrent workload: one event of each recognized kind
ConcEvents ==
    {Payload("issue_comment", "created", TRUE, <<Marker, "x">>, TRUE, FALSE, <<>>),
     Payload("issues", "opened", FALSE, <<>>, TRUE, FALSE, <<"x">>)}

Single == workload = "single"

Events == IF Single THEN CommentEvents \cup IssueEvents \cup OtherEvents ELSE ConcEvents
GenOutcomes == IF Single THEN {"ok", "unreachable", "timeout", "http_error"}
               ELSE {"ok", "unreachable"}
KeyOutcomes == IF Single THEN {"ok", "missing", "malformed"} ELSE {"ok"}
ClockTicks == IF Single THEN 0..MaxTick ELSE {0}
Drifts == IF Single THEN 0..MaxDrift ELSE {0}
TokOutcomes == IF Single THEN {"ok", "rejected", "transport"} ELSE {"ok", "rejected"}
PostOutcomes == IF Single THEN {"response", "transport"} ELSE {"response"}
Statuses == IF Single THEN {200, 201, 401, 500} ELSE {201, 500}

NoWire == [gen |-> "none", text |-> <<>>, key |-> "none", tok |-> "none",
           post |-> "none", status |-> 0]
NoHttp == [code |-> 0, status |-> "none", error |-> "none"]
NoJwt == [built |-> FALSE, iat |-> 0, exp |-> 0]

----------------------------------------------------------------------------
(* The code's expressions *)

\* line 94
IsCommentCreated(ev) == ev.type = "issue_comment" /\ ev.action = "created"

\* line 115
IsIssueOpenedAnyAction(ev) == ev.type = "issues"
IsIssueOpened(ev) == ev.type = "issues" /\ ev.action = "opened"

\* line 98
MentionsAgent(body) == Contains(Lower(body), Marker)

\* line 103: comment_body.split('@agent', 1)[1].strip()
ExtractPrompt(body) ==
    LET parts == Split1(body, Marker)
    IN IF Len(parts) < 2 THEN [raised |-> TRUE, value |-> <<>>]
       ELSE [raised |-> FALSE, value |-> Strip(parts[2])]

\* lines 116-122
OrEmpty(isNull, s) == IF isNull \/ s = <<>> THEN <<>> ELSE s
AnalysisPrompt(ev) ==
    <<AnalysisHead>> \o ev.title \o <<AnalysisBody>> \o OrEmpty(ev.bodyNull, ev.issueBody)

\* lines 52-67: call_ollama
CallOllamaRaising(outcome, text) ==
    IF outcome = "ok" THEN [raised |-> FALSE, value |-> text]
    ELSE [raised |-> TRUE, value |-> <<>>]
CallOllama(outcome, text) ==
    IF outcome = "ok" THEN [raised |-> FALSE, value |-> text]
    ELSE [raised |-> FALSE, value |-> <<OllamaError, outcome>>]

\* lines 109 and 125
WrapCommentOneTemplate(ev, text) == <<CommentTemplate>> \o text
WrapComment(ev, text) ==
    IF IsCommentCreated(ev) THEN <<CommentTemplate>> \o text
    ELSE <<IssueTemplate>> \o text

\* line 55: requests.post blocks until the generation service answers
AfterGenerateSentAsync == "jwt_iat"
AfterGenerateSent == "gen_wait"

\* lines 29-33: the two time.time() reads, t1 then t2, in ticks
JwtPayload(t1, t2) ==
    [built |-> TRUE, iat |-> t1 \div TicksPerSec, exp |-> (t2 \div TicksPerSec) + Validity]

\* lines 45-50 and 71: the exchange raises unless the answer carries a token
ExchangeNextSwallow(outcome) == "post_send"
ExchangeNext(outcome) == IF outcome = "ok" THEN "post_send" ELSE "fault"

\* line 73: the Authorization header of the comment post
TokenForCached(r) == Cardinality(issued)
TokenFor(r) == token[r]

\* line 83
PublishResultAny2xx(status) == IF status \in 200..299 THEN "True" ELSE "False"
PublishResult(status) == IF status = Created THEN "True" ELSE "False"

\* lines 112 and 128
WebhookStatusSurfacing(pub) == IF pub = "True" THEN "processed" ELSE "failed"
WebhookStatus(pub) == "processed"

----------------------------------------------------------------------------
(* The state after the server has started: no request received yet *)

InitLocals ==
    /\ pc = [r \in Reqs |-> "idle"]
    /\ event = [r \in Reqs |-> NoEvent]
    /\ prompt = [r \in Reqs |-> <<>>]
    /\ response = [r \in Reqs |-> <<>>]
    /\ comment = [r \in Reqs |-> <<>>]
    /\ clk = [r \in Reqs |-> 0]
    /\ jwt = [r \in Reqs |-> NoJwt]
    /\ token = [r \in Reqs |-> 0]
    /\ published = [r \in Reqs |-> "none"]
    /\ http = [r \in Reqs |-> NoHttp]
    /\ wire = [r \in Reqs |-> NoWire]
    /\ trace = [r \in Reqs |-> <<>>]
    /\ issued = {}
    /\ posts = {}

Init == workload = "single" /\ InitLocals

InitConc == workload = "concurrent" /\ InitLocals

----------------------------------------------------------------------------
(* webhook(), one action per stretch of code between two blocking calls *)

\* an exception leaves webhook(): Flask answers 500
Unhandled(e) == [code |-> 500, status |-> "none", error |-> e]

\* lines 112, 128, 130: jsonify({'status': ...}), 200
Answer(st) == [code |-> 200, status |-> st, error |-> "none"]

\* a POST /webhook arrives (in the single workload, at request 1 only)
Receive(r) ==
    /\ pc[r] = "idle"
    /\ Single => r = 1
    /\ \E ev \in Events : event' = [event EXCEPT ![r] = ev]
    /\ pc' = [pc EXCEPT ![r] = "classify"]
    /\ UNCHANGED <<workload, prompt, response, comment, clk, jwt, token,
                   published, http, wire, trace, issued, posts>>

\* lines 88-106 and 115-123, up to the moment the generation request is sent.
\* out.kind is "raise", "ignore" or "generate".
Route(ev) ==
    IF IsCommentCreated(ev) THEN
        IF ~ev.hasComment THEN [kind |-> "raise", error |-> "KeyError", prompt |-> <<>>]
        ELSE IF MentionsAgent(ev.body) THEN
            IF ~ev.hasIssue THEN [kind |-> "raise", error |-> "KeyError", prompt |-> <<>>]
            ELSE LET p == ExtractPrompt(ev.body)
                 IN IF p.raised
                    THEN [kind |-> "raise", error |-> "IndexError", prompt |-> <<>>]
                    ELSE [kind |-> "generate", error |-> "none", prompt |-> p.value]
        ELSE [kind |-> "ignore", error |-> "none", prompt |-> <<>>]
    ELSE IF IsIssueOpened(ev) THEN
        IF ~ev.hasIssue THEN [kind |-> "raise", error |-> "KeyError", prompt |-> <<>>]
        ELSE [kind |-> "generate", error |-> "none", prompt |-> AnalysisPrompt(ev)]
    ELSE [kind |-> "ignore", error |-> "none", prompt |-> <<>>]

Classify(r) ==
    /\ pc[r] = "classify"
    /\ LET out == Route(event[r])
       IN /\ prompt' = [prompt EXCEPT ![r] = out.prompt]
          /\ pc' = [pc EXCEPT ![r] =
                        IF out.kind = "generate" THEN AfterGenerateSent ELSE "done"]
          /\ http' = [http EXCEPT ![r] =
                        CASE out.kind = "raise" -> Unhandled(out.error)
                          [] out.kind = "ignore" -> Answer("ignored")
                          [] OTHER -> @]
          /\ trace' = [trace EXCEPT ![r] =
                        IF out.kind = "generate" THEN Append(@, "gen_start") ELSE @]
    /\ UNCHANGED <<workload, event, response, comment, clk, jwt, token,
                   published, wire, issued, posts>>

\* lines 55-67, then 109 or 125: the generation service answers (or fails to),
\* call_ollama returns, the comment is built, post_github_comment is entered
OllamaReply(r) ==
    /\ pc[r] = "gen_wait"
    /\ \E o \in GenOutcomes, t \in Texts :
         LET txt == IF o = "ok" THEN t ELSE <<>>
             res == CallOllama(o, txt)
         IN /\ o # "ok" => t = <<"x">>
            /\ wire' = [wire EXCEPT ![r].gen = o, ![r].text = txt]
            /\ trace' = [trace EXCEPT ![r] = Append(@, "gen_end")]
            /\ response' = [response EXCEPT ![r] = res.value]
            /\ comment' = [comment EXCEPT ![r] =
                              IF res.raised THEN @ ELSE WrapComment(event[r], res.value)]
            /\ pc' = [pc EXCEPT ![r] = IF res.raised THEN "done" ELSE "jwt_iat"]
            /\ http' = [http EXCEPT ![r] =
                              IF res.raised THEN Unhandled("RequestException") ELSE @]
    /\ UNCHANGED <<workload, event, prompt, clk, jwt, token, published, issued, posts>>

\* lines 26-30: the key file is read, then time.time() is read for 'iat'
JwtIat(r) ==
    /\ pc[r] = "jwt_iat"
    /\ \E k \in KeyOutcomes, t \in ClockTicks :
         /\ k = "missing" => t = 0
         /\ wire' = [wire EXCEPT ![r].key = k]
         /\ clk' = [clk EXCEPT ![r] = t]
         /\ pc' = [pc EXCEPT ![r] = IF k = "missing" THEN "done" ELSE "jwt_exp"]
         /\ http' = [http EXCEPT ![r] =
                        IF k = "missing" THEN Unhandled("FileNotFoundError") ELSE @]
    /\ UNCHANGED <<workload, event, prompt, response, comment, jwt, token,
                   published, trace, issued, posts>>

\* lines 31-35 and 39-48: time.time() is read again for 'exp', the payload is
\* signed, the token exchange request is sent
JwtExp(r) ==
    /\ pc[r] = "jwt_exp"
    /\ \E d \in Drifts :
         jwt' = [jwt EXCEPT ![r] = JwtPayload(clk[r], clk[r] + d)]
    /\ clk' = [clk EXCEPT ![r] = 0]
    /\ pc' = [pc EXCEPT ![r] = IF wire[r].key = "malformed" THEN "done" ELSE "tok_wait"]
    /\ http' = [http EXCEPT ![r] =
                   IF wire[r].key = "malformed" THEN Unhandled("InvalidKeyError") ELSE @]
    /\ trace' = [trace EXCEPT ![r] =
                   IF wire[r].key = "malformed" THEN @ ELSE Append(@, "tok_start")]
    /\ UNCHANGED <<workload, event, prompt, response, comment, token,
                   published, wire, issued, posts>>

\* lines 45-50 and 71: GitHub answers the exchange (or the call fails)
TokenReply(r) ==
    /\ pc[r] = "tok_wait"
    /\ \E o \in TokOutcomes :
         LET fresh == Cardinality(issued) + 1
             nxt == ExchangeNext(o)
         IN /\ wire' = [wire EXCEPT ![r].tok = o]
            /\ token' = [token EXCEPT ![r] = IF o = "ok" THEN fresh ELSE @]
            /\ issued' = IF o = "ok" THEN issued \cup {[req |-> r, token |-> fresh]}
                         ELSE issued
            /\ pc' = [pc EXCEPT ![r] = IF nxt = "fault" THEN "done" ELSE nxt]
            /\ http' = [http EXCEPT ![r] =
                           IF nxt = "fault"
                           THEN Unhandled(IF o = "rejected" THEN "KeyError"
                                          ELSE "RequestException")
                           ELSE @]
    /\ trace' = [trace EXCEPT ![r] = Append(@, "tok_end")]
    /\ UNCHANGED <<workload, event, prompt, response, comment, clk, jwt,
                   published, posts>>

\* lines 72-81: the comment post is sent
PostSend(r) ==
    /\ pc[r] = "post_send"
    /\ posts' = posts \cup {[req |-> r, token |-> TokenFor(r), body |-> comment[r]]}
    /\ trace' = [trace EXCEPT ![r] = Append(@, "post_start")]
    /\ pc' = [pc EXCEPT ![r] = "post_wait"]
    /\ UNCHANGED <<workload, event, prompt, response, comment, clk, jwt, token,
                   published, http, wire, issued>>

\* lines 77-83, then 110-112 or 126-128: GitHub answers the post (or the call
\* fails), post_github_comment returns, webhook() returns
PostReply(r) ==
    /\ pc[r] = "post_wait"
    /\ \E o \in PostOutcomes, st \in Statuses :
         LET pub == PublishResult(st)
         IN /\ o = "transport" => st = 201
            /\ wire' = [wire EXCEPT ![r].post = o,
                                    ![r].status = IF o = "response" THEN st ELSE 0]
            /\ published' = [published EXCEPT ![r] = IF o = "response" THEN pub ELSE @]
            /\ http' = [http EXCEPT ![r] =
                           IF o = "response" THEN Answer(WebhookStatus(pub))
                           ELSE Unhandled("RequestException")]
    /\ trace' = [trace EXCEPT ![r] = Append(@, "post_end")]
    /\ pc' = [pc EXCEPT ![r] = "done"]
    /\ UNCHANGED <<workload, event, prompt, response, comment, clk, jwt, token,
                   issued, posts>>

Next ==
    \E r \in Reqs :
        \/ Receive(r)
        \/ Classify(r)
        \/ OllamaReply(r)
        \/ JwtIat(r)
        \/ JwtExp(r)
        \/ TokenReply(r)
        \/ PostSend(r)
        \/ PostReply(r)

Spec == Init /\ [][Next]_vars

SpecConc == InitConc /\ [][Next]_vars

----------------------------------------------------------------------------
(* Vocabulary of the properties, written on the raw state *)

Done(r) == pc[r] = "done"
Classified(r) == pc[r] \notin {"idle", "classify"}
Count(r, e) == Cardinality({i \in 1..Len(trace[r]) : trace[r][i] = e})
IsPrefix(s, t) == Len(s) <= Len(t) /\ \A i \in 1..Len(s) : s[i] = t[i]
PostsOf(r) == {p \in posts : p.req = r}

CommentCreated(r) == event[r].type = "issue_comment" /\ event[r].action = "created"
IssueOpened(r) == event[r].type = "issues" /\ event[r].action = "opened"
MarkerAt(b, i) == b[i] \in {"@agent", "@Agent"}
HasMarkerAnyCase(b) == \E i \in 1..Len(b) : MarkerAt(b, i)
HasMarkerLiteral(b) == \E i \in 1..Len(b) : b[i] = "@agent"
AfterFirstAnyCase(b) ==
    LET i == CHOOSE k \in 1..Len(b) : MarkerAt(b, k) /\ \A j \in 1..(k-1) : ~MarkerAt(b, j)
    IN SubSeq(b, i+1, Len(b))
TemplateOf(r) ==
    IF event[r].type = "issue_comment" THEN "[robot] **Agent Response:**"
    ELSE "[wave] **Automated Analysis:**"
GenFailed(r) == wire[r].gen \in {"unreachable", "timeout", "http_error"}
ErrorText(r) == <<"Error calling Ollama: ", wire[r].gen>>
ExpectedComment(r) ==
    <<TemplateOf(r)>> \o (IF wire[r].gen = "ok" THEN wire[r].text ELSE ErrorText(r))
OkStatus(r) == http[r].code = 200 /\ http[r].status \in {"processed", "ignored"}

\* the cases in which a statement of webhook() or of a function it calls raises
Raises(r) ==
    \/ CommentCreated(r) /\ ~event[r].hasComment
    \/ CommentCreated(r) /\ event[r].hasComment /\ HasMarkerAnyCase(event[r].body)
          /\ (~event[r].hasIssue \/ ~HasMarkerLiteral(event[r].body))
    \/ ~CommentCreated(r) /\ IssueOpened(r) /\ ~event[r].hasIssue
    \/ wire[r].key \in {"missing", "malformed"}
    \/ wire[r].tok \in {"rejected", "transport"}
    \/ wire[r].post = "transport"

----------------------------------------------------------------------------
(* C1 *)

\* C1 as stated: every finished request was answered 200 with status
\* "processed" or "ignored"; none ended in an unhandled fault.
C1_AlwaysOk == \A r \in Reqs : Done(r) => OkStatus(r)

\* C1 amended: a finished request was answered 200 with status "processed" or
\* "ignored" unless a statement raised (a payload key is missing, the marker
\* occurs in another letter case only, the key file cannot be read or signed
\* with, the token exchange fails or is rejected, the comment post fails in
\* transport), and then it ended in an unhandled fault (500).  Neither a
\* failed generation nor a comment post answered with another status than 201
\* raises.
C1_OkUnlessRaised ==
    \A r \in Reqs : Done(r) => IF Raises(r) THEN http[r].code = 500 ELSE OkStatus(r)

C1_Witness ==
    \E r \in Reqs : Done(r) /\ GenFailed(r) /\ wire[r].status = 401
                    /\ http[r].code = 200 /\ http[r].status = "processed"

----------------------------------------------------------------------------
(* C2 *)

Unrecognized(r) ==
    /\ ~IssueOpened(r)
    /\ \/ ~CommentCreated(r)
       \/ event[r].hasComment /\ ~HasMarkerAnyCase(event[r].body)

\* C2: an event that matches neither branch (wrong type or action, or a created
\* comment without the marker) is answered "ignored" and makes no outbound
\* call: no generation, no token exchange, no comment post.
C2_IgnoredNoCalls ==
    \A r \in Reqs :
        (Classified(r) /\ Unrecognized(r)) =>
            /\ Done(r)
            /\ http[r].code = 200 /\ http[r].status = "ignored"
            /\ trace[r] = <<>>
            /\ PostsOf(r) = {}
            /\ \A t \in issued : t.req # r
            /\ wire[r] = NoWire

C2_Witness ==
    \E r \in Reqs : /\ Done(r) /\ CommentCreated(r) /\ event[r].hasComment
                    /\ event[r].body = <<"x", " ", "X">>
                    /\ http[r].status = "ignored" /\ trace[r] = <<>>

----------------------------------------------------------------------------
(* C3 *)

CredentialsFine(r) ==
    /\ wire[r].key \notin {"missing", "malformed"}
    /\ wire[r].tok \notin {"rejected", "transport"}
    /\ wire[r].post # "transport"

\* C3 as stated: for a created comment whose body contains the marker in any
\* letter case, generation is called with everything after the first
\* occurrence of the marker, trimmed, letter case kept, and the request is
\* then answered "processed".
C3_PromptAfterFirstMarker ==
    \A r \in Reqs :
        (Classified(r) /\ CommentCreated(r) /\ event[r].hasComment /\ event[r].hasIssue
            /\ HasMarkerAnyCase(event[r].body)) =>
            /\ Count(r, "gen_start") = 1
            /\ prompt[r] = Strip(AfterFirstAnyCase(event[r].body))
            /\ (Done(r) /\ CredentialsFine(r)) => http[r].status = "processed"

----------------------------------------------------------------------------
(* C4 *)

\* C4: when the generation backend is unreachable, times out or answers a
\* non-2xx status, call_ollama returns the error string, and in both branches
\* the handler goes on into the comment publisher with that string wrapped in
\* the branch's template.
C4_ErrorStillPublished ==
    \A r \in Reqs :
        GenFailed(r) =>
            /\ response[r] = ErrorText(r)
            /\ comment[r] = <<TemplateOf(r)>> \o ErrorText(r)
            /\ pc[r] = "jwt_iat" \/ wire[r].key # "none"
            /\ \A p \in PostsOf(r) : p.body = <<TemplateOf(r)>> \o ErrorText(r)

C4_Witness ==
    \E r \in Reqs :
        /\ wire[r].gen = "timeout" /\ IssueOpened(r)
        /\ \E p \in PostsOf(r) :
              p.body = <<"[wave] **Automated Analysis:**", "Error calling Ollama: ", "timeout">>

----------------------------------------------------------------------------
(* C5 *)

IsStart(e) == e \in {"gen_start", "tok_start", "post_start"}

\* C5 as stated: the calls of one request start in the order token exchange,
\* generation, comment post.
C5_TokenFirst ==
    \A r \in Reqs :
        IsPrefix(SelectSeq(trace[r], IsStart), <<"tok_start", "gen_start", "post_start">>)

\* C5 amended: the calls of one request occur strictly one after another in
\* the order generation, token exchange, comment post; each starts only after
\* the one before it has ended.
C5_GenerationFirst ==
    \A r \in Reqs :
        IsPrefix(trace[r], <<"gen_start", "gen_end", "tok_start", "tok_end",
                             "post_start", "post_end">>)

C5_Witness ==
    \E r \in Reqs :
        /\ Done(r)
        /\ trace[r] = <<"gen_start", "gen_end", "tok_start", "tok_end",
                        "post_start", "post_end">>

----------------------------------------------------------------------------
(* C6 *)

\* C6 as stated: every signed assertion has exp - iat = 600, also when the
\* clock passes a second boundary while the payload is built.
C6_ExactValidity ==
    \A r \in Reqs : jwt[r].built => jwt[r].exp - jwt[r].iat = 600

----------------------------------------------------------------------------
(* C7 *)

\* C7 as stated: every publish attempt returns a boolean, True iff the comment
\* post was answered 201, False otherwise, a rejected token exchange included.
C7_AlwaysBoolean ==
    \A r \in Reqs :
        (Done(r) /\ wire[r].tok # "none") =>
            /\ published[r] \in {"True", "False"}
            /\ published[r] = "True" <=> wire[r].status = 201

\* C7 amended: when the comment post is answered, the publisher returns True
\* iff the status is exactly 201 and False for any other status (401
\* included); when the token exchange is rejected or fails, or the post fails
\* in transport, the publisher raises and returns nothing.
C7_BooleanWhenAnswered ==
    \A r \in Reqs :
        (Done(r) /\ wire[r].tok # "none") =>
            IF wire[r].tok = "ok" /\ wire[r].post = "response"
            THEN published[r] = (IF wire[r].status = 201 THEN "True" ELSE "False")
            ELSE published[r] = "none" /\ http[r].code = 500

C7_Witness ==
    \E r \in Reqs : Done(r) /\ wire[r].tok = "ok" /\ wire[r].status = 200
                    /\ published[r] = "False"

----------------------------------------------------------------------------
(* C8 *)

\* C8: nothing is retried: one request makes at most one generation call, one
\* token exchange and one comment post; and a failed token exchange ends the
\* request at once, without a comment post.
C8_NoRetry ==
    \A r \in Reqs :
        /\ Count(r, "gen_start") <= 1
        /\ Count(r, "tok_start") <= 1
        /\ Count(r, "post_start") <= 1
        /\ Cardinality(PostsOf(r)) <= 1
        /\ Cardinality({t \in issued : t.req = r}) <= 1
        /\ wire[r].tok \in {"rejected", "transport"} =>
              /\ Done(r) /\ http[r].code = 500
              /\ Count(r, "post_start") = 0
              /\ PostsOf(r) = {}
              /\ trace[r][Len(trace[r])] = "tok_end"

C8_Witness ==
    \E r \in Reqs : Done(r) /\ GenFailed(r) /\ wire[r].tok = "rejected"
                    /\ Count(r, "tok_start") = 1 /\ PostsOf(r) = {}

----------------------------------------------------------------------------
(* C9 *)

\* C9: with requests handled concurrently, every comment post carries the token
\* that the same request's own exchange returned and the comment built from
\* that request's own event and generation result, and every answer depends
\* on the request's own event and call results only.
C9_NoSharedState ==
    /\ \A p \in posts :
          /\ [req |-> p.req, token |-> p.token] \in issued
          /\ wire[p.req].tok = "ok"
          /\ p.body = ExpectedComment(p.req)
    /\ \A r \in Reqs :
          Done(r) => IF wire[r].tok = "ok" THEN OkStatus(r) /\ http[r].status = "processed"
                     ELSE http[r].code = 500

C9_Witness ==
    \E r1 \in Reqs, r2 \in Reqs :
        /\ token[r1] = 1 /\ token[r2] = 2
        /\ PostsOf(r1) # {} /\ PostsOf(r2) # {}
        /\ event[r1] # event[r2]
        /\ wire[r1].gen = "ok" /\ wire[r2].gen = "unreachable"

----------------------------------------------------------------------------
(* C10 *)

\* C10: for a recognized event whose comment post is answered with any status
\* other than 201, the answer is still 200 "processed", as with 201.
C10_SilentPublishFailure ==
    \A r \in Reqs :
        (Done(r) /\ wire[r].post = "response") =>
            /\ CommentCreated(r) \/ IssueOpened(r)
            /\ http[r] = [code |-> 200, status |-> "processed", error |-> "none"]

C10_Witness ==
    \E r \in Reqs : Done(r) /\ wire[r].post = "response" /\ wire[r].status = 500
                    /\ published[r] = "False" /\ http[r].status = "processed"

====
